---- MODULE Spec2Model ----
(***************************************************************************)
(* Deferred results of src/main.py: Immediate (synchronous) and Pending    *)
(* (asynchronous) pipelines composed with then/also, created by            *)
(* make_result and driven by run_result.                                   *)
(*                                                                         *)
(* A pipeline is a leaf function plus a sequence of stages; func(k) is the *)
(* closure held in _func after k stages (func(0) is the leaf).  Calling a  *)
(* closure is modelled by an operator that takes the log of events so far  *)
(* and returns the extended log together with the outcome (a returned      *)
(* value or a raised exception).                                           *)
(***************************************************************************)
EXTENDS Integers, Sequences, FiniteSets, TLC

MaxStages == 2   \* longest chain of then/also stages composed on a leaf
MaxSusp == 1     \* most suspensions (awaits that yield) inside an async leaf
MaxForces == 2   \* most times a continuation invokes the callable it is given
MaxRuns == 2     \* most invocations of one composed result

VARIABLES leaf, variant, stages, pc, log, todo, out, ret, past

vars == <<leaf, variant, stages, pc, log, todo, out, ret, past>>

\* ---------------------------------------------------------------- outcomes
Val(v) == [tag |-> "val", v |-> v]
Err(e) == [tag |-> "err", v |-> e]
NoOutcome == [tag |-> "none", v |-> ""]

Ev(e, k, tag, v) == [ev |-> e, k |-> k, tag |-> tag, v |-> v]

Min(a, b) == IF a < b THEN a ELSE b

\* ------------------------------------------------------------------ inputs
\* A leaf is a zero-argument function.  coro: declared "async def" (what
\* inspect.iscoroutinefunction tells).  awaitable: calling it returns a
\* coroutine whose body is the computation; a plain function or lambda may
\* return one too.  outs: the outcome of the first and of the later
\* executions of its body (a leaf may be stateful).  susp: how many times its
\* body suspends.
LeafOutcomes == {Val("42"), Err("E")}

Leaves ==
    {l \in [coro : BOOLEAN, awaitable : BOOLEAN,
            outs : LeafOutcomes \X LeafOutcomes, susp : 0..MaxSusp] :
        /\ l.coro => l.awaitable
        /\ ~l.awaitable => l.susp = 0}

SyncLeaves == {l \in Leaves : ~l.coro /\ ~l.awaitable}
AsyncLeaves == {l \in Leaves : l.coro}
CoroutineReturningLeaves == {l \in Leaves : ~l.coro /\ l.awaitable}

\* Continuations passed to then.  A continuation invokes the callable it
\* receives `forces` times; a raise out of that callable is caught when
\* `catch` and propagates otherwise; `end` says how it finishes.
print_result ==
    [name |-> "print_result", forces |-> 1, catch |-> FALSE, end |-> "ret", prints |-> TRUE]

Conts ==
    { print_result,
      [name |-> "ignore", forces |-> 0, catch |-> FALSE, end |-> "const", prints |-> FALSE],
      [name |-> "fallback", forces |-> 1, catch |-> TRUE, end |-> "ret", prints |-> FALSE],
      [name |-> "again", forces |-> MaxForces, catch |-> FALSE, end |-> "ret", prints |-> FALSE],
      [name |-> "throw", forces |-> 0, catch |-> FALSE, end |-> "raise", prints |-> FALSE],
      [name |-> "picky", forces |-> 1, catch |-> TRUE, end |-> "raise_on_value", prints |-> FALSE] }

\* Context managers passed to also.  enter: whether __enter__ returns or
\* raises; swallow: whether __exit__ returns a true value.
PrintContextManager == [name |-> "PrintContextManager", enter |-> "ok", swallow |-> FALSE]

Resources ==
    { PrintContextManager,
      [name |-> "swallowing", enter |-> "ok", swallow |-> TRUE],
      [name |-> "unavailable", enter |-> "fail", swallow |-> FALSE] }

ThenStage(c) == [kind |-> "then", next |-> c, cm |-> PrintContextManager]
AlsoStage(cm) == [kind |-> "also", next |-> print_result, cm |-> cm]

\* ------------------------------------------------------------ the closures
CountEv(l, e) == Cardinality({i \in DOMAIN l : l[i].ev = e})

Suspends(n) == [i \in 1..n |-> Ev("suspend", 0, "", "")]

\* get_answer / get_question: one execution of the leaf function
LeafCall(l) ==
    LET n == CountEv(l, "leaf") + 1
        o == leaf.outs[Min(n, Len(leaf.outs))]
    IN  [log |-> Append(l \o <<Ev("leaf", 0, "", "")>> \o Suspends(leaf.susp),
                        Ev("leaf_done", 0, o.tag, o.v)),
         out |-> o]

\* the leaf function called without await: a plain function runs its body, an
\* awaitable one only creates a coroutine object, whose body does not run
ImmediateLeaf(l) ==
    IF leaf.awaitable
    THEN [log |-> Append(l, Ev("coroutine", 0, "", "")), out |-> Val("coroutine")]
    ELSE LeafCall(l)

\* the callable handed to a continuation
LazyThunk(k) == [lazy |-> TRUE, k |-> k, out |-> NoOutcome]
ValueThunk(v) == [lazy |-> FALSE, k |-> 0, out |-> Val(v)]
RaiseThunk(e) == [lazy |-> FALSE, k |-> 0, out |-> Err(e)]

RECURSIVE ImmediateCall(_, _)
RECURSIVE PendingCall(_, _)
RECURSIVE ImmediateAlso(_, _, _)
RECURSIVE PendingAlso(_, _, _)
RECURSIVE ForceLoop(_, _, _, _, _, _)
RECURSIVE AfterForce(_, _, _, _, _)

\* invoking the callable inside a continuation
Force(th, l) ==
    IF th.lazy THEN ImmediateCall(th.k, l) ELSE [log |-> l, out |-> th.out]

\* what print_result prints for an outcome of func()
Prints(c, k, o) ==
    IF c.prints THEN <<Ev("print", k, o.tag, o.v)>> ELSE <<>>

\* what a continuation logs after a func() call with outcome f.out
Forced(c, k, f) ==
    Append(f.log, Ev("force", k, f.out.tag, f.out.v)) \o Prints(c, k, f.out)

\* the body of a continuation up to its last func() call: n calls are left,
\* last is the outcome of the previous one; AfterForce continues after a
\* call that gave f (a raise propagates unless the continuation catches it)
AfterForce(c, th, k, n, f) ==
    IF f.out.tag = "err" /\ ~c.catch
    THEN [log |-> Forced(c, k, f), out |-> f.out, raised |-> TRUE]
    ELSE ForceLoop(c, th, k, Forced(c, k, f), n - 1, f.out)

ForceLoop(c, th, k, l, n, last) ==
    IF n = 0 THEN [log |-> l, out |-> last, raised |-> FALSE]
    ELSE AfterForce(c, th, k, n, Force(th, l))

\* how a continuation finishes after its func() calls
ContEnd(c, last) ==
    CASE c.end = "ret" -> IF last.tag = "val" THEN last ELSE Val("r")
      [] c.end = "const" -> Val("r")
      [] c.end = "raise" -> Err("X")
      [] c.end = "raise_on_value" -> IF last.tag = "val" THEN Err("X") ELSE Val("r")

\* the outcome of a continuation whose func() calls ended as b
ContOutcome(c, b) == IF b.raised THEN b.out ELSE ContEnd(c, b.out)

ContReturn(c, k, b) ==
    [log |-> Append(b.log, Ev("ret", k, ContOutcome(c, b).tag, ContOutcome(c, b).v)),
     out |-> ContOutcome(c, b)]

\* next(thunk): one call of the continuation of stage k
CallNext(c, th, k, l) ==
    ContReturn(c, k,
        ForceLoop(c, th, k,
                  Append(l, Ev("call", k, IF th.lazy THEN "lazy" ELSE th.out.tag,
                                          IF th.lazy THEN "" ELSE th.out.v)),
                  c.forces, NoOutcome))

\* "with cm:" entered: __enter__ of the context manager of stage k
Enter(cm, k, l) ==
    IF cm.enter = "ok"
    THEN [log |-> Append(l, Ev("acquire", k, "", "")), out |-> Val("None")]
    ELSE [log |-> Append(l, Ev("acquire_failed", k, "err", "A")), out |-> Err("A")]

Exit_Swallows(cm, k, r) ==
    [log |-> Append(r.log, Ev("release", k, r.out.tag, r.out.v)),
     out |-> IF r.out.tag = "err" THEN Val("None") ELSE r.out]

Exit_NoFinally(cm, k, r) ==
    IF r.out.tag = "err" THEN r
    ELSE [log |-> Append(r.log, Ev("release", k, r.out.tag, r.out.v)), out |-> r.out]

\* "with cm:" left with the outcome r of the body: __exit__ runs, and a true
\* return value of __exit__ suppresses the exception
Exit(cm, k, r) ==
    [log |-> Append(r.log, Ev("release", k, r.out.tag, r.out.v)),
     out |-> IF r.out.tag = "err" /\ cm.swallow THEN Val("None") ELSE r.out]

ImmediateThen_Eager(c, k, l) ==
    IF ImmediateCall(k - 1, l).out.tag = "err" THEN ImmediateCall(k - 1, l)
    ELSE CallNext(c, ValueThunk(ImmediateCall(k - 1, l).out.v), k, ImmediateCall(k - 1, l).log)

\* Immediate.then: lambda: next(self._func)
ImmediateThen(c, k, l) == CallNext(c, LazyThunk(k - 1), k, l)

PendingDo_NoCapture(c, k, r) ==
    IF r.out.tag = "val" THEN CallNext(c, ValueThunk(r.out.v), k, r.log) ELSE r

\* Pending._do, the except clause: next(lambda: value) gave c1, and a raise
\* out of it is caught like a raise out of "await func()"
PendingDoExcept(c, k, c1) ==
    IF c1.out.tag = "err"
    THEN CallNext(c, RaiseThunk(c1.out.v), k, c1.log)
    ELSE c1

PendingDo_Yields(c, k, r) ==
    IF r.out.tag = "val"
    THEN PendingDoExcept(c, k, CallNext(c, ValueThunk(r.out.v), k,
                                        Append(r.log, Ev("suspend", k, "", ""))))
    ELSE CallNext(c, RaiseThunk(r.out.v), k, Append(r.log, Ev("suspend", k, "", "")))

\* Pending._do after "await func()" gave r
PendingDo(c, k, r) ==
    IF r.out.tag = "val"
    THEN PendingDoExcept(c, k, CallNext(c, ValueThunk(r.out.v), k, r.log))
    ELSE CallNext(c, RaiseThunk(r.out.v), k, r.log)

\* _also after __enter__ gave e: the body runs only when __enter__ returned
ImmediateAlso(cm, k, e) ==
    IF e.out.tag = "err" THEN e ELSE Exit(cm, k, ImmediateCall(k - 1, e.log))

PendingAlso_IgnoresEnter(cm, k, e) == Exit(cm, k, PendingCall(k - 1, e.log))

PendingAlso_NoAwait(cm, k, e) ==
    IF e.out.tag = "err" THEN e
    ELSE PendingCall(k - 1, Exit(cm, k, [log |-> e.log, out |-> Val("coroutine")]).log)

PendingAlso(cm, k, e) ==
    IF e.out.tag = "err" THEN e ELSE Exit(cm, k, PendingCall(k - 1, e.log))

\* Immediate: calling func(k), the closure built by k stages
ImmediateCall(k, l) ==
    IF k = 0 THEN ImmediateLeaf(l)
    ELSE IF stages[k].kind = "then" THEN ImmediateThen(stages[k].next, k, l)
    ELSE ImmediateAlso(stages[k].cm, k, Enter(stages[k].cm, k, l))

\* Pending: awaiting func(k)()
PendingCall(k, l) ==
    IF k = 0 THEN LeafCall(l)
    ELSE IF stages[k].kind = "then"
         THEN PendingDo(stages[k].next, k, PendingCall(k - 1, l))
    ELSE PendingAlso(stages[k].cm, k, Enter(stages[k].cm, k, l))

\* the events of the earlier invocations of the composed result
RECURSIVE Flatten(_)
Flatten(p) == IF p = <<>> THEN <<>> ELSE Flatten(SubSeq(p, 1, Len(p) - 1)) \o p[Len(p)].log

History == Flatten(past)

\* the events and the outcome of one invocation that started after History
ThisRun(r) == [log |-> SubSeq(r.log, Len(History) + 1, Len(r.log)), out |-> r.out]

Invoke_Memoized(v) ==
    IF past # <<>> THEN [log |-> <<>>, out |-> past[Len(past)].out]
    ELSE IF v = "Immediate" THEN ThisRun(ImmediateCall(Len(stages), History))
    ELSE ThisRun(PendingCall(Len(stages), History))

\* Immediate.__call__ / Pending.__call__ on the composed result
Invoke(v) ==
    IF v = "Immediate" THEN ThisRun(ImmediateCall(Len(stages), History))
    ELSE ThisRun(PendingCall(Len(stages), History))

\* what run_result gives its caller when the chain's outcome is o
RunResultReturn(o) == IF o.tag = "val" THEN Val("None") ELSE o

\* the part of an event sequence up to and including its first suspension
UpToSuspend(s) ==
    LET idx == {i \in DOMAIN s : s[i].ev = "suspend"}
    IN  IF idx = {} THEN Len(s)
        ELSE CHOOSE i \in idx : \A j \in idx : i <= j

\* --------------------------------------------------------------- the program
Init ==
    /\ leaf \in SyncLeaves \cup AsyncLeaves \cup CoroutineReturningLeaves
    /\ variant = "none"
    /\ stages = <<>>
    /\ pc = "start"
    /\ log = <<>>
    /\ todo = <<>>
    /\ out = NoOutcome
    /\ ret = NoOutcome
    /\ past = <<>>

MakeResult_AlwaysImmediate ==
    /\ pc = "start"
    /\ variant' = "Immediate"
    /\ pc' = "composed"
    /\ UNCHANGED <<leaf, stages, log, todo, out, ret, past>>

\* make_result(func)
MakeResult ==
    /\ pc = "start"
    /\ variant' = IF leaf.coro THEN "Pending" ELSE "Immediate"
    /\ pc' = "composed"
    /\ UNCHANGED <<leaf, stages, log, todo, out, ret, past>>

Then_Eager(c) ==
    /\ pc = "composed"
    /\ Len(stages) < MaxStages
    /\ stages' = Append(stages, ThenStage(c))
    /\ log' = CallNext(c, LazyThunk(Len(stages)), Len(stages) + 1, log).log
    /\ UNCHANGED <<leaf, variant, pc, todo, out, ret, past>>

Then_Demotes(c) ==
    /\ pc = "composed"
    /\ Len(stages) < MaxStages
    /\ stages' = Append(stages, ThenStage(c))
    /\ variant' = "Immediate"
    /\ UNCHANGED <<leaf, pc, log, todo, out, ret, past>>

\* result.then(next)
Then(c) ==
    /\ pc = "composed"
    /\ Len(stages) < MaxStages
    /\ stages' = Append(stages, ThenStage(c))
    /\ UNCHANGED <<leaf, variant, pc, log, todo, out, ret, past>>

\* result.also(cm)
Also(cm) ==
    /\ pc = "composed"
    /\ Len(stages) < MaxStages
    /\ stages' = Append(stages, AlsoStage(cm))
    /\ UNCHANGED <<leaf, variant, pc, log, todo, out, ret, past>>

\* the coroutine object made by calling a Pending: the events its execution
\* produces, and last the result it finishes with
Coroutine(r) == Append(r.log, Ev("result", 0, r.out.tag, r.out.v))

\* the caller of run_result gets the chain's outcome r
Finished(r) ==
    /\ pc' = "done"
    /\ out' = r.out
    /\ ret' = RunResultReturn(r.out)

RunCoroutine_NeverFinishes(s) ==
    /\ log' = log \o SubSeq(s, 1, IF s[UpToSuspend(s)].ev = "suspend"
                                  THEN UpToSuspend(s) ELSE Len(s) - 1)
    /\ todo' = IF s[UpToSuspend(s)].ev = "suspend"
               THEN SubSeq(s, UpToSuspend(s) + 1, Len(s)) ELSE <<s[Len(s)]>>
    /\ pc' = "suspended"
    /\ UNCHANGED <<out, ret>>

\* the coroutine whose remaining steps are s (events, then its result) runs
\* until it suspends or finishes
RunCoroutine(s) ==
    IF s[UpToSuspend(s)].ev = "suspend"
    THEN /\ log' = log \o SubSeq(s, 1, UpToSuspend(s))
         /\ todo' = SubSeq(s, UpToSuspend(s) + 1, Len(s))
         /\ pc' = "suspended"
         /\ UNCHANGED <<out, ret>>
    ELSE /\ log' = log \o SubSeq(s, 1, Len(s) - 1)
         /\ todo' = <<>>
         /\ Finished([out |-> [tag |-> s[Len(s)].tag, v |-> s[Len(s)].v]])

\* run_result(result), result an Immediate: the call runs on the caller's thread
RunImmediate ==
    /\ pc \in {"composed", "again"}
    /\ variant = "Immediate"
    /\ log' = Invoke("Immediate").log
    /\ Finished(Invoke("Immediate"))
    /\ todo' = <<>>
    /\ UNCHANGED <<leaf, variant, stages, past>>

\* run_result(result), result a Pending: asyncio.run starts the coroutine,
\* which runs until it first suspends or finishes
RunPending ==
    /\ pc \in {"composed", "again"}
    /\ variant = "Pending"
    /\ RunCoroutine(Coroutine(Invoke("Pending")))
    /\ UNCHANGED <<leaf, variant, stages, past>>

\* the event loop resumes the suspended coroutine, which runs until it
\* suspends again or finishes; asyncio.run returns when it has finished
Resume ==
    /\ pc = "suspended"
    /\ RunCoroutine(todo)
    /\ UNCHANGED <<leaf, variant, stages, past>>

\* the program goes on to run the same composed result once more
Again ==
    /\ pc = "done"
    /\ Len(past) + 1 < MaxRuns
    /\ past' = Append(past, [log |-> log, out |-> out])
    /\ log' = <<>>
    /\ out' = NoOutcome
    /\ ret' = NoOutcome
    /\ pc' = "again"
    /\ UNCHANGED <<leaf, variant, stages, todo>>

Next ==
    \/ MakeResult
    \/ \E c \in Conts : Then(c)
    \/ \E cm \in Resources : Also(cm)
    \/ RunImmediate
    \/ RunPending
    \/ Resume
    \/ Again

Spec == Init /\ [][Next]_vars

\* asyncio.run keeps the event loop running until the coroutine has finished:
\* a suspended coroutine is eventually resumed
FairSpec == Spec /\ WF_vars(Resume)

\* ------------------------------------------------------- reading the log
\* positions of the events e of stage k
At(e, k) == {i \in DOMAIN log : log[i].ev = e /\ log[i].k = k}

\* number of events e of stage k among the first i events
CountUpTo(e, k, i) == Cardinality({j \in At(e, k) : j <= i})

IsThen(k) == k \in DOMAIN stages /\ stages[k].kind = "then"
IsAlso(k) == k \in DOMAIN stages /\ stages[k].kind = "also"

\* calling the leaf as the variant calls it executes its body
LeafBodyRuns == variant = "Pending" \/ ~leaf.awaitable

LeafAlwaysFails ==
    LeafBodyRuns /\ leaf.outs[1] = Err("E") /\ leaf.outs[2] = Err("E")

\* ------------------------------------------------------------------ claims

\* C1: when the chain completes with value v, run_result hands v to its
\* caller, and when the chain fails with E, run_result fails with E.
C1_RunReturnsOutcome == pc = "done" => ret = out

\* C2: with a leaf that fails with E and a then stage composed directly on
\* it, every call of the continuation receives a callable that raises
\* exactly E when invoked (each invocation made raises E), and E reaches the
\* caller only after the continuation has been called.
C2_FailureHandedToContinuation ==
    (IsThen(1) /\ LeafAlwaysFails) =>
        /\ \A i \in At("call", 1) :
              IF log[i].tag = "lazy"
              THEN ImmediateCall(0, SubSeq(log, 1, i)).out = Err("E")
              ELSE log[i].tag = "err" /\ log[i].v = "E"
        /\ \A i \in At("force", 1) : log[i].tag = "err" /\ log[i].v = "E"
        /\ \A i \in At("leaf_done", 0) :
              \/ \E j \in At("call", 1) : j < i
              \/ pc = "done" => \E j \in At("call", 1) : j > i
        /\ (out = Err("E") \/ ret = Err("E")) => At("call", 1) # {}

C2_Witness ==
    /\ pc = "done" /\ variant = "Pending" /\ IsThen(1) /\ LeafAlwaysFails
    /\ \E i \in At("call", 1) : log[i].tag = "err" /\ log[i].v = "E"
    /\ \E i \in At("force", 1) : log[i].v = "E"
    /\ ret = Err("E")

\* C3: for every also stage, in both variants, acquire and release of its
\* resource alternate, every successful acquire is followed by exactly one
\* release before the invocation ends, whether the wrapped computation
\* returned or raised, and nothing composed after the stage (an outer stage
\* or the caller of run_result) acts while the resource is still held.
C3_ReleaseExactlyOnce ==
    \A k \in DOMAIN stages : IsAlso(k) =>
        /\ \A i \in 0..Len(log) :
              /\ CountUpTo("acquire", k, i) - CountUpTo("release", k, i) \in {0, 1}
              /\ (i > 0 /\ log[i].k > k) =>
                    CountUpTo("acquire", k, i) = CountUpTo("release", k, i)
        /\ (out # NoOutcome \/ ret # NoOutcome) =>
              CountUpTo("acquire", k, Len(log)) = CountUpTo("release", k, Len(log))

C3_Witness ==
    /\ pc = "done" /\ IsAlso(Len(stages)) /\ ret = Err("E")
    /\ \E i \in At("release", Len(stages)) : log[i].tag = "err" /\ log[i].v = "E"
    /\ CountUpTo("acquire", Len(stages), Len(log)) = 1
    /\ CountUpTo("release", Len(stages), Len(log)) = 1
    /\ log[Len(log)].ev = "release"

\* C4: each invocation of an Immediate produced by then runs the wrapped
\* computation exactly once and has its outcome before the continuation is
\* called, whatever the continuation does with the callable it is given.
C4_UpstreamRunOnceBeforeContinuation ==
    (pc = "done" /\ variant = "Immediate" /\ Len(stages) = 1 /\ IsThen(1)) =>
        /\ CountEv(log, "leaf") = 1
        /\ \A i \in At("call", 1) : \E j \in At("leaf_done", 0) : j < i

\* two invocations, at positions i < j, made by the same call of the
\* continuation of stage k
SameCall(k, i, j) ==
    /\ i \in At("force", k) /\ j \in At("force", k) /\ i < j
    /\ \A m \in At("call", k) : ~(i < m /\ m < j)

\* C5: the callable handed to a continuation replays one fixed outcome: two
\* invocations of it within one call of the continuation yield the same
\* value or the same failure, and nothing upstream is executed in between.
C5_ThunkReplaysFixedOutcome ==
    \A k \in DOMAIN stages : IsThen(k) =>
        \A i, j \in DOMAIN log : SameCall(k, i, j) =>
            /\ log[i].tag = log[j].tag /\ log[i].v = log[j].v
            /\ \A m \in DOMAIN log : (i < m /\ m < j) => log[m].k >= k

\* C6: one invocation of a Pending produced by then calls the continuation
\* exactly once, and what that call returned or raised is the outcome of the
\* stage.
C6_ContinuationCalledOnce ==
    (pc = "done" /\ variant = "Pending" /\ IsThen(Len(stages))) =>
        /\ Cardinality(At("call", Len(stages))) = 1
        /\ \A i \in At("ret", Len(stages)) :
              (\A j \in At("ret", Len(stages)) : i <= j) =>
                  out = [tag |-> log[i].tag, v |-> log[i].v]

\* the outcome of the computation wrapped by the outermost stage
UpstreamOutcome ==
    IF variant = "Immediate" THEN ImmediateCall(Len(stages) - 1, History).out
    ELSE PendingCall(Len(stages) - 1, History).out

\* a continuation that does not let a failure of its callable through and
\* then returns: it does not invoke the callable, or catches what it raises
Suppresses(c) ==
    /\ c.forces = 0 \/ c.catch
    /\ ContEnd(c, Err("E")).tag = "val"

\* C7: in both variants, when the wrapped computation of a then stage fails
\* with E and the continuation returns r without invoking its callable, or
\* invokes it and catches the raise, the outcome of the stage is the value r
\* and no failure reaches the caller.
C7_FailureSuppressed ==
    (pc = "done" /\ IsThen(Len(stages)) /\ Suppresses(stages[Len(stages)].next)
        /\ UpstreamOutcome = Err("E")) =>
        /\ out = Val("r")
        /\ ret.tag = "val"

C7_Witness ==
    /\ pc = "done" /\ variant = "Pending" /\ IsThen(Len(stages))
    /\ stages[Len(stages)].next.name = "fallback"
    /\ \E i \in At("call", Len(stages)) : log[i].tag = "err" /\ log[i].v = "E"
    /\ \E i \in At("force", Len(stages)) : log[i].tag = "err" /\ log[i].v = "E"
    /\ out = Val("r")

\* the events of a run that a user of the pipeline can see: leaf executions,
\* continuation calls, acquires and releases
Observable(l) ==
    LET s == SelectSeq(l, LAMBDA e : e.ev \in {"leaf", "call", "acquire", "release"})
    IN  [i \in DOMAIN s |-> <<s[i].ev, s[i].k>>]

\* the same leaf and stages invoked as the other variant
OtherVariant ==
    IF variant = "Immediate" THEN ThisRun(PendingCall(Len(stages), History))
    ELSE ThisRun(ImmediateCall(Len(stages), History))

\* C8: for the same leaf outcome and the same stages, an Immediate chain and
\* a Pending chain produce the same sequence of observable events and the
\* same final outcome.
C8_VariantsBehaveAlike ==
    pc = "done" =>
        /\ Observable(log) = Observable(OtherVariant.log)
        /\ out = OtherVariant.out

\* C9: every invocation of wrap(f).also(R).then(c) acquires and releases R
\* exactly once, and R has been released whenever c gets the outcome of the
\* also stage, however often c invokes its callable.
C9_ScopedOncePerInvocation ==
    (pc = "done" /\ Len(stages) = 2 /\ IsAlso(1) /\ IsThen(2)
        /\ stages[1].cm.enter = "ok") =>
        /\ Cardinality(At("acquire", 1)) = 1
        /\ Cardinality(At("release", 1)) = 1
        /\ \A i \in At("call", 2) \cup At("force", 2) :
              CountUpTo("acquire", 1, i) = CountUpTo("release", 1, i)

\* C10: in wrap(f).then(c1).then(c2) the leaf f has finished before c1 is
\* called and c1 has finished before c2 is called.
C10_StagesRunInCompositionOrder ==
    (Len(stages) = 2 /\ IsThen(1) /\ IsThen(2)) =>
        /\ \A i \in At("call", 1) : \E j \in At("leaf_done", 0) : j < i
        /\ \A i \in At("call", 2) : \E j \in At("ret", 1) : j < i

\* what follows the release at position i of an also stage carries the
\* failure E the wrapped computation ended with: the next event is the caller
\* of the stage getting its outcome, and after the last event it is the chain
\* that ends with it
FailsAfterRelease(i) ==
    IF i < Len(log)
    THEN log[i + 1].tag = "err" /\ log[i + 1].v = log[i].v
    ELSE pc = "done" => out = Err(log[i].v)

\* C11 (as stated): in both variants, when the wrapped computation of an
\* also stage fails with E, the stage fails with E for its caller once release
\* has run, for every resource whose acquire succeeds.
C11_FailurePropagatesAfterRelease ==
    \A k \in DOMAIN stages : (IsAlso(k) /\ stages[k].cm.enter = "ok") =>
        \A i \in At("release", k) : log[i].tag = "err" => FailsAfterRelease(i)

\* C11 (amended): the same, for every resource whose acquire succeeds and
\* whose release returns a false value, that is, does not ask the with
\* statement to suppress the exception.
C11_FailurePropagatesUnlessSuppressed ==
    \A k \in DOMAIN stages :
        (IsAlso(k) /\ stages[k].cm.enter = "ok" /\ ~stages[k].cm.swallow) =>
            \A i \in At("release", k) : log[i].tag = "err" => FailsAfterRelease(i)

C11_Witness ==
    /\ pc = "done" /\ variant = "Pending" /\ Len(stages) = 2
    /\ IsAlso(1) /\ ~stages[1].cm.swallow /\ IsThen(2)
    /\ \E i \in At("release", 1) :
          /\ log[i].tag = "err" /\ log[i].v = "E"
          /\ log[i + 1].ev = "call" /\ log[i + 1].tag = "err" /\ log[i + 1].v = "E"

\* the first invocation of the result that make_result gave, with no stage
\* composed on it, has finished
BareResultRan == pc = "done" /\ stages = <<>> /\ past = <<>>

\* that invocation executed the body of the leaf once, to its outcome
DrivenToOutcome == out = leaf.outs[1] /\ CountEv(log, "leaf_done") = 1

\* C12 (as stated): make_result yields an Immediate for a plain function
\* returning a plain value and a Pending for every function that returns an
\* awaitable when called, a plain function or lambda returning a coroutine
\* included, and running the result drives the computation to its outcome.
C12_FactoryPicksByReturnedValue ==
    variant # "none" =>
        /\ variant = "Pending" <=> leaf.awaitable
        /\ BareResultRan => DrivenToOutcome

\* C12 (amended): make_result yields a Pending exactly for a function
\* declared as a coroutine function and an Immediate for every other one;
\* for a plain function returning a plain value and for a coroutine function
\* running the result drives the computation to its outcome, while a plain
\* function or lambda returning a coroutine becomes an Immediate whose
\* outcome is the coroutine object, the body of which is never executed.
C12_FactoryPicksByDeclaration ==
    variant # "none" =>
        /\ variant = "Pending" <=> leaf.coro
        /\ (BareResultRan /\ (leaf.coro \/ ~leaf.awaitable)) => DrivenToOutcome
        /\ (BareResultRan /\ ~leaf.coro /\ leaf.awaitable) =>
              out = Val("coroutine") /\ CountEv(log, "leaf") = 0

C12_Witness ==
    /\ BareResultRan /\ leaf \in CoroutineReturningLeaves
    /\ variant = "Immediate" /\ out = Val("coroutine")

\* the example leaves of the program: get_answer and get_question, which
\* suspends once in asyncio.sleep
get_answer ==
    [coro |-> FALSE, awaitable |-> FALSE, outs |-> <<Val("42"), Val("42")>>, susp |-> 0]
get_question ==
    [coro |-> TRUE, awaitable |-> TRUE, outs |-> <<Val("42"), Val("42")>>, susp |-> 1]

\* make_result(leaf).then(print_result).also(PrintContextManager(...))
ExampleChain == stages = <<ThenStage(print_result), AlsoStage(PrintContextManager)>>

\* the events of l whose kind is in S, in order
Project(l, S) == SelectSeq(l, LAMBDA e : e.ev \in S)

\* C13: one run of the example chain on get_answer or on get_question shows
\* acquire, then the print of the leaf value, then release, each exactly
\* once and in this order, and the run on get_question suspends exactly once.
C13_ExampleRunOrder ==
    (pc = "done" /\ ExampleChain /\ leaf \in {get_answer, get_question}) =>
        /\ Project(log, {"acquire", "acquire_failed", "print", "release"}) =
              << Ev("acquire", 2, "", ""), Ev("print", 1, "val", "42"),
                 Ev("release", 2, "val", "42") >>
        /\ CountEv(log, "suspend") = leaf.susp
        /\ out = Val("42")

C13_Witness ==
    /\ pc = "done" /\ ExampleChain /\ leaf = get_question
    /\ CountEv(log, "suspend") = 1
    /\ \E i \in At("print", 1) : \E j \in At("release", 2) : i < j

\* every execution of the body of the leaf has the same outcome
LeafDeterministic == leaf.outs[1] = leaf.outs[2]

\* C14: invoking the same Immediate chain again re-runs every stage: with a
\* deterministic leaf the invocation has the outcome and the sequence of
\* events (leaf run, continuation calls, prints, acquire, release) of the
\* invocation before it.
C14_ReinvocationRepeats ==
    (pc = "done" /\ variant = "Immediate" /\ past # <<>> /\ LeafDeterministic) =>
        /\ log = past[Len(past)].log
        /\ out = past[Len(past)].out

C14_Witness ==
    /\ pc = "done" /\ variant = "Immediate" /\ past # <<>> /\ LeafDeterministic
    /\ ExampleChain /\ ~leaf.awaitable
    /\ CountEv(log, "leaf") = 1 /\ CountEv(log, "print") = 1
    /\ CountEv(past[1].log, "leaf") = 1 /\ CountEv(past[1].log, "print") = 1

\* C15: in a run of a Pending chain every suspension lies inside the body of
\* the leaf (after its start or another of its suspensions, before its end),
\* the run suspends as often as the leaf executions in it do, the coroutine
\* is parked only at such a suspension, and a continuation invoking its
\* callable, raising or not, does so without a suspension in between.
C15_SuspendsOnlyInLeaf ==
    variant = "Pending" =>
        /\ \A i \in DOMAIN log : log[i].ev = "suspend" =>
              /\ log[i].k = 0
              /\ i > 1 /\ log[i - 1].ev \in {"leaf", "suspend"}
              /\ i < Len(log) => log[i + 1].ev \in {"suspend", "leaf_done"}
        /\ \A i \in DOMAIN log : log[i].ev = "force" =>
              log[i - 1].ev \in {"call", "force", "print"} /\ log[i - 1].k = log[i].k
        /\ pc = "done" => CountEv(log, "suspend") = leaf.susp * CountEv(log, "leaf")
        /\ pc = "suspended" => log # <<>> /\ log[Len(log)].ev = "suspend"

C15_Witness ==
    /\ pc = "done" /\ variant = "Pending" /\ leaf.susp >= 1 /\ Len(stages) = 2
    /\ IsAlso(1) /\ IsThen(2)
    /\ CountEv(log, "suspend") = leaf.susp
    /\ \E i \in At("force", 2) :
          log[i].tag = "err" /\ log[i].v = "E" /\ log[i - 1].ev = "call"

\* C16: wrapping a computation with make_result and composing stages with
\* then and also run nothing: until the result is first invoked the leaf has
\* not been executed, no continuation has been called, no resource has been
\* acquired or released and there is no outcome.
C16_CompositionHasNoEffect ==
    pc \in {"start", "composed"} =>
        /\ log = <<>> /\ todo = <<>> /\ past = <<>>
        /\ out = NoOutcome /\ ret = NoOutcome

C16_Witness ==
    /\ pc = "composed" /\ Len(stages) = 2 /\ IsAlso(1) /\ IsThen(2)
    /\ log = <<>> /\ out = NoOutcome

C18_VariantPreserved ==
    /\ [][variant # "none" => variant' = variant]_vars
    /\ [](variant # "none" => variant = IF leaf.coro THEN "Pending" ELSE "Immediate")
    /\ []((pc = "suspended" \/ todo # <<>> \/ CountEv(log, "suspend") > 0)
            => variant = "Pending")
    /\ [](CountEv(log, "coroutine") > 0 => variant = "Immediate")

C18_Witness ==
    /\ pc = "suspended" /\ variant = "Pending" /\ Len(stages) = 2
    /\ IsThen(1) /\ IsAlso(2) /\ past # <<>>

\* every resource acquired in the current invocation has been released
AllReleased ==
    \A k \in DOMAIN stages :
        CountUpTo("acquire", k, Len(log)) = CountUpTo("release", k, Len(log))

\* C19: a run that has started finishes: a chain parked at a suspension is
\* eventually resumed and ends with a value or a failure; run_result gives
\* its caller an outcome only when the whole chain has finished, and by then
\* every resource acquired during the run has been released.
C19_RunCompletes ==
    /\ (pc = "suspended") ~> (pc = "done")
    /\ [](ret # NoOutcome => pc = "done")
    /\ [](pc = "done" => /\ todo = <<>>
                         /\ out.tag \in {"val", "err"} /\ ret.tag \in {"val", "err"}
                         /\ AllReleased)

C19_Witness ==
    /\ pc = "done" /\ variant = "Pending" /\ leaf.susp >= 1
    /\ CountEv(log, "suspend") >= 1 /\ CountEv(log, "release") >= 1
    /\ AllReleased /\ out = Err("E")

\* the resource of stage k cannot be acquired: its __enter__ raises A
EnterFails(k) == IsAlso(k) /\ stages[k].cm.enter = "fail"

\* C20: in both variants, when __enter__ of the resource of an also stage
\* raises A, the wrapped computation is not executed (the next thing to
\* happen is a caller of the stage getting the failure A, or the chain ending
\* with A), release of that resource is never called, and in every prefix of
\* a run no resource has more releases than successful acquires.
C20_FailedAcquireSkipsBodyAndRelease ==
    \A k \in DOMAIN stages :
        /\ EnterFails(k) =>
              /\ At("release", k) = {} /\ At("acquire", k) = {}
              /\ \A i \in At("acquire_failed", k) :
                    IF i < Len(log)
                    THEN /\ log[i + 1].k > k
                         /\ log[i + 1].tag = "err" /\ log[i + 1].v = "A"
                    ELSE pc = "done" /\ out = Err("A")
        /\ \A i \in 0..Len(log) :
              CountUpTo("release", k, i) <= CountUpTo("acquire", k, i)

C20_Witness ==
    /\ pc = "done" /\ variant = "Pending" /\ Len(stages) = 2
    /\ IsThen(1) /\ EnterFails(2)
    /\ At("acquire_failed", 2) # {} /\ log[Len(log)].ev = "acquire_failed"
    /\ CountEv(log, "leaf") = 0 /\ CountEv(log, "call") = 0
    /\ out = Err("A")
====
